---- MODULE Spec2Model ----
(***************************************************************************)
(* tauri-mcp: the process lifecycle manager (src/tools/process.rs), its    *)
(* log multiplexer, and the JSON-RPC request loop (src/server.rs).         *)
(*                                                                         *)
(* Spec      : ProcessManager driven through TauriMcpServer::execute_tool, *)
(*             with the stdout/stderr reader tasks and concurrent          *)
(*             get_app_logs callers under the tokio RwLock.                *)
(* SpecServe : TauriMcpServer::serve, the stdin/stdout request loop.       *)
(***************************************************************************)
EXTENDS Integers, Sequences, FiniteSets, TLC

(***************************************************************************)
(* Bounds of the model.                                                    *)
(***************************************************************************)
\* number of distinct values Uuid::new_v4 can hand out in one run
MaxIds == 2
\* number of OS process identifiers
MaxPids == 2
\* lines a child writes on each of its two streams
MaxLines == 2
\* capacity of the log channel; the code's bounded(1000), scaled down
QueueCap == 2
\* tasks that call get_app_logs concurrently (read lock holders)
NumCallers == 2
\* largest `lines` argument tried
MaxLimit == 2
\* lines read from stdin in one run of serve
MaxInput == 2
\* largest request id tried
MaxReqId == 1
\* handler names registered with the IpcManager
MaxHandlers == 2

Ids == 1..MaxIds
Pids == 1..MaxPids
Callers == 1..NumCallers
Streams == {"stdout", "stderr"}

\* Option<T>: None is <<>>, Some(v) is <<v>>
None == <<>>
Some(v) == <<v>>

\* the JSON values tried for the `lines` argument: absent, a negative
\* number, a non-negative integer
LinesArgs == {None} \cup {Some(v) : v \in -1..MaxLimit}

\* TauriMcpError::ProcessError messages
ErrNotFound == "Process not found"
ErrExternal == "Cannot stop externally launched process"
ErrKill == "Failed to kill process"
ErrNoPath == "App path does not exist"
ErrSpawn == "Failed to launch app"
ErrNoInfo == "Failed to get process info"
ErrNoPid == "Process with PID not found"

VARIABLES
    processes,    \* ProcessManager.processes: session-id -> ProcessInfo
    issued,       \* values Uuid::new_v4 has produced so far
    alive,        \* the OS process table (pids sysinfo reports)
    chan,         \* per session-id: the lines buffered in the crossbeam channel
    rd,           \* per session-id and stream: the reader task's state
    task,         \* per session-id: state of log_handle's task
    call,         \* per caller: an in-flight get_app_logs
    clean,        \* per session-id: a get_app_logs returned and no line was sent since
    returned,     \* per session-id: every line returned by get_app_logs so far
    idsReturned,  \* the session-ids returned by launch_app/attach_to_app, in order
    stopped,      \* session-ids on which stop_app returned Ok
    lastOp,       \* the operation that returned last, with its outcome
    loop,         \* serve: state of the request loop
    nread,        \* serve: number of lines read from stdin
    lastLine,     \* serve: the line handled last
    wrote,        \* serve: response lines written for lastLine
    known_handlers,  \* IpcManager.known_handlers: process id -> handler names
    listed        \* the result of the last list_ipc_handlers, if any

mgrVars == <<processes, issued, alive, chan, rd, task, call, clean,
             returned, idsReturned, stopped, lastOp>>
srvVars == <<loop, nread, lastLine, wrote>>
ipcVars == <<known_handlers, listed>>
vars == <<processes, issued, alive, chan, rd, task, call, clean,
          returned, idsReturned, stopped, lastOp, loop, nread, lastLine, wrote,
          known_handlers, listed>>

(***************************************************************************)
(* Helpers                                                                 *)
(***************************************************************************)
Range(s) == {s[i] : i \in 1..Len(s)}

NoDup(s) == \A i, j \in 1..Len(s) : i # j => s[i] # s[j]

\* serde_json Value::as_u64: Some(n) for a non-negative integer, else None
AsU64(v) == IF v # None /\ v[1] >= 0 THEN v ELSE None

\* a reader that tags every line as standard output
LogLineStdout(s, n) == [tag |-> "stdout", n |-> n]

\* format!("[stdout] {}", line) / format!("[stderr] {}", line): the n-th line
\* of a stream, tagged with its origin
LogLine(s, n) == [tag |-> s, n |-> n]

\* HashMap::insert
InsertRecord(procs, id, info) ==
    [i \in DOMAIN procs \cup {id} |-> IF i = id THEN info ELSE procs[i]]

KeepRecord(procs, id) == procs

\* a removal that empties the map
RemoveAll(procs, id) == <<>>

\* HashMap::remove in stop_app
RemoveRecord(procs, id) == [i \in DOMAIN procs \ {id} |-> procs[i]]

UnusedIds(iss, procs) == Ids \ DOMAIN procs

\* an id generator that may repeat any value
NewV4Any(iss, procs) == Ids

\* Uuid::new_v4: a value never produced before in this run
NewV4(iss, procs) == Ids \ iss

CanSendAlways(q) == TRUE

\* bounded(cap): send completes only while the channel holds fewer than cap
CanSend(q) == Len(q) < QueueCap

DequeueKeep(q) == q

\* try_recv removes the line it returns
Dequeue(q) == Tail(q)

FirstN(logs, lines) ==
    IF lines = None THEN logs
    ELSE SubSeq(logs, 1, IF lines[1] < Len(logs) THEN lines[1] ELSE Len(logs))

\* a limit that is not applied
LastNAll(logs, lines) == logs

\* logs[logs.len().saturating_sub(line_count)..]
LastN(logs, lines) ==
    IF lines = None THEN logs
    ELSE LET start == IF Len(logs) > lines[1] THEN Len(logs) - lines[1] ELSE 0
         IN  SubSeq(logs, start + 1, Len(logs))

\* number of lines the readers of a process have sent into its channel
Enq(id) ==
    LET sent(s) == rd[id][s].pos - (IF rd[id][s].pc = "send" THEN 1 ELSE 0)
    IN  sent("stdout") + sent("stderr")

\* a lock that does not count its readers
ReadingNone == {}

\* holders of the read lock on the registry
Reading == {c \in Callers : call[c].pc = "drain"}

IdleCall == [pc |-> "idle", id |-> 0, lines |-> None, logs |-> <<>>,
             snap |-> <<>>, startClean |-> FALSE, quiet |-> TRUE, solo |-> TRUE]

\* a line was sent into the channel of id: the calls draining it are no
\* longer quiet
NoteSend(id) ==
    [c \in Callers |-> IF call[c].pc = "drain" /\ call[c].id = id
                       THEN [call[c] EXCEPT !.quiet = FALSE]
                       ELSE call[c]]

\* the outcome of an operation: Ok (err is "") or Err(ProcessError(err))
Outcome(op, id, ok, err) == [op |-> op, id |-> id, ok |-> ok, err |-> err]

NoOp == Outcome("none", 0, TRUE, "")

\* a line of stdin: its JSON shape and the fields the server looks at
Line(kind, v2, id, method, shape, name, keys, version) ==
    [kind |-> kind, v2 |-> v2, id |-> id, method |-> method, shape |-> shape,
     name |-> name, keys |-> keys, version |-> version]

\* an empty or whitespace-only line
BlankLine == Line("blank", TRUE, None, "", "none", None, {}, None)

(***************************************************************************)
(* Initial state: ProcessManager::new, nothing read from stdin             *)
(***************************************************************************)
Init ==
    /\ processes = <<>>
    /\ issued = {}
    /\ alive = {}
    /\ chan = [i \in Ids |-> <<>>]
    /\ rd = [i \in Ids |-> [s \in Streams |-> [pc |-> "none", pos |-> 0]]]
    /\ task = [i \in Ids |-> "none"]
    /\ call = [c \in Callers |-> IdleCall]
    /\ clean = [i \in Ids |-> FALSE]
    /\ returned = [i \in Ids |-> <<>>]
    /\ idsReturned = <<>>
    /\ stopped = {}
    /\ lastOp = NoOp
    /\ loop = "running"
    /\ nread = 0
    /\ lastLine = BlankLine
    /\ wrote = <<>>
    /\ known_handlers = <<>>
    /\ listed = None

(***************************************************************************)
(* The operating system: processes the server did not start                *)
(***************************************************************************)
\* a process table in which every pid is found
SystemProcessAny(table, pid) == TRUE

\* system.refresh_processes(); system.process(Pid::from_u32(pid)).is_some()
SystemProcess(table, pid) == pid \in table

\* a path test that finds every path
PathExistsAny(onDisk) == TRUE

\* Path::new(app_path).exists()
PathExists(onDisk) == onDisk

OsSpawn(pid) ==
    /\ pid \notin alive
    /\ alive' = alive \cup {pid}
    /\ UNCHANGED <<processes, issued, chan, rd, task, call, clean,
                   returned, idsReturned, stopped, lastOp>>
    /\ UNCHANGED srvVars
    /\ UNCHANGED ipcVars

\* a process (external, or a launched child) exits on its own
OsExit(pid) ==
    /\ pid \in alive
    /\ alive' = alive \ {pid}
    /\ UNCHANGED <<processes, issued, chan, rd, task, call, clean,
                   returned, idsReturned, stopped, lastOp>>
    /\ UNCHANGED srvVars
    /\ UNCHANGED ipcVars

(***************************************************************************)
(* ProcessManager::launch_app, under the write lock                        *)
(***************************************************************************)
\* pid: the identifier the OS gives the child; id: the value Uuid::new_v4 yields
launch_app(pathExists, spawnOk, pid, id) ==
    /\ Reading = {}
    /\ IF ~PathExists(pathExists)
       THEN /\ lastOp' = Outcome("launch_app", 0, FALSE, ErrNoPath)
            /\ UNCHANGED <<processes, issued, alive, chan, rd, task, idsReturned>>
       ELSE IF ~spawnOk
       THEN /\ lastOp' = Outcome("launch_app", 0, FALSE, ErrSpawn)
            /\ UNCHANGED <<processes, issued, alive, chan, rd, task, idsReturned>>
       ELSE /\ pid \notin alive
            /\ id \in NewV4(issued, processes)
            /\ alive' = alive \cup {pid}
            /\ issued' = issued \cup {id}
            /\ chan' = [chan EXCEPT ![id] = <<>>]
            /\ rd' = [rd EXCEPT ![id] =
                         [s \in Streams |-> [pc |-> "read", pos |-> 0]]]
            /\ task' = [task EXCEPT ![id] = "running"]
            /\ processes' = InsertRecord(processes, id,
                               [child |-> TRUE, pid |-> pid, is_attached |-> FALSE])
            /\ idsReturned' = Append(idsReturned, [id |-> id, op |-> "launch_app"])
            /\ lastOp' = Outcome("launch_app", id, TRUE, "")
    /\ UNCHANGED <<call, clean, returned, stopped>>
    /\ UNCHANGED srvVars
    /\ UNCHANGED ipcVars

(***************************************************************************)
(* ProcessManager::attach_to_app, under the write lock                     *)
(***************************************************************************)
\* an attach that reads the streams of the process as launch_app does
PipedReaders == [s \in Streams |-> [pc |-> "read", pos |-> 0]]

\* let (_log_sender, log_receiver) = bounded(1000): no stream is piped and
\* no reader gets the sender, which is dropped when attach_to_app returns
NoReaders == [s \in Streams |-> [pc |-> "none", pos |-> 0]]

\* a record of an attach that is not marked as one
AttachedInfoUnmarked(pid) == [child |-> FALSE, pid |-> pid, is_attached |-> FALSE]

\* ProcessInfo { child: None, pid, is_attached: true, .. }
AttachedInfo(pid) == [child |-> FALSE, pid |-> pid, is_attached |-> TRUE]

\* id: the value Uuid::new_v4 yields
attach_to_app(pid, id) ==
    /\ Reading = {}
    /\ IF ~SystemProcess(alive, pid)
       THEN /\ lastOp' = Outcome("attach_to_app", 0, FALSE, ErrNoPid)
            /\ UNCHANGED <<processes, issued, chan, rd, task, idsReturned>>
       ELSE /\ id \in NewV4(issued, processes)
            /\ issued' = issued \cup {id}
            /\ chan' = [chan EXCEPT ![id] = <<>>]
            /\ rd' = [rd EXCEPT ![id] = NoReaders]
            /\ task' = [task EXCEPT ![id] = "running"]
            /\ processes' = InsertRecord(processes, id, AttachedInfo(pid))
            /\ idsReturned' = Append(idsReturned, [id |-> id, op |-> "attach_to_app"])
            /\ lastOp' = Outcome("attach_to_app", id, TRUE, "")
    /\ UNCHANGED <<alive, call, clean, returned, stopped>>
    /\ UNCHANGED srvVars
    /\ UNCHANGED ipcVars

(***************************************************************************)
(* ProcessManager::stop_app, under the write lock                          *)
(***************************************************************************)
\* a stop that takes every record for one with a child to kill
OwnsAny(info) == TRUE

\* if let Some(mut child) = process_info.child
OwnsChild(info) == info.child

\* JoinHandle::abort: cancels the task unless it has completed
Abort(t) == IF t = "running" THEN "aborted" ELSE t

stop_app(id, killOk) ==
    /\ Reading = {}
    /\ IF id \notin DOMAIN processes
       THEN /\ lastOp' = Outcome("stop_app", id, FALSE, ErrNotFound)
            /\ UNCHANGED <<processes, alive, task, stopped>>
       ELSE LET info == processes[id] IN
            /\ processes' = RemoveRecord(processes, id)
            /\ IF OwnsChild(info)
               THEN IF killOk
                    THEN /\ alive' = alive \ {info.pid}
                         /\ task' = [task EXCEPT ![id] = Abort(@)]
                         /\ stopped' = stopped \cup {id}
                         /\ lastOp' = Outcome("stop_app", id, TRUE, "")
                    ELSE /\ lastOp' = Outcome("stop_app", id, FALSE, ErrKill)
                         /\ UNCHANGED <<alive, task, stopped>>
               ELSE IF info.is_attached
                    THEN /\ lastOp' = Outcome("stop_app", id, FALSE, ErrExternal)
                         /\ UNCHANGED <<alive, task, stopped>>
                    ELSE /\ task' = [task EXCEPT ![id] = Abort(@)]
                         /\ stopped' = stopped \cup {id}
                         /\ lastOp' = Outcome("stop_app", id, TRUE, "")
                         /\ UNCHANGED alive
    /\ UNCHANGED <<issued, chan, rd, call, clean, returned, idsReturned>>
    /\ UNCHANGED srvVars
    /\ UNCHANGED ipcVars

(***************************************************************************)
(* ProcessManager::monitor_resources, under the read lock                  *)
(***************************************************************************)
monitor_resources(id) ==
    /\ lastOp' = IF id \notin DOMAIN processes
                 THEN Outcome("monitor_resources", id, FALSE, ErrNotFound)
                 ELSE IF SystemProcess(alive, processes[id].pid)
                 THEN Outcome("monitor_resources", id, TRUE, "")
                 ELSE Outcome("monitor_resources", id, FALSE, ErrNoInfo)
    /\ UNCHANGED <<processes, issued, alive, chan, rd, task, call,
                   clean, returned, idsReturned, stopped>>
    /\ UNCHANGED srvVars
    /\ UNCHANGED ipcVars

(***************************************************************************)
(* ProcessManager::get_running_processes                                   *)
(***************************************************************************)
\* a listing that leaves out the records without child
GetLaunched(procs) == {id \in DOMAIN procs : procs[id].child}

\* self.processes.keys().cloned().collect(), as a set
GetRunningProcesses(procs) == DOMAIN procs

get_running_processes ==
    /\ lastOp' = [op |-> "get_running_processes", id |-> 0, ok |-> TRUE,
                  err |-> "", ids |-> GetRunningProcesses(processes)]
    /\ UNCHANGED <<processes, issued, alive, chan, rd, task, call,
                   clean, returned, idsReturned, stopped>>
    /\ UNCHANGED srvVars
    /\ UNCHANGED ipcVars

(***************************************************************************)
(* ProcessManager::get_app_logs, under the read lock.  The drain loop      *)
(* takes one line per try_recv, so the reader tasks and other callers      *)
(* interleave with it.                                                     *)
(***************************************************************************)
\* execute_tool parses `lines`, takes the read lock, looks the id up
get_app_logs_begin(c, id, linesArg) ==
    /\ call[c].pc = "idle"
    /\ IF id \notin DOMAIN processes
       THEN /\ lastOp' = Outcome("get_app_logs", id, FALSE, ErrNotFound)
            /\ UNCHANGED call
       ELSE /\ call' = [d \in Callers |->
                          IF d = c
                          THEN [pc |-> "drain", id |-> id, lines |-> AsU64(linesArg),
                                logs |-> <<>>, snap |-> chan[id],
                                startClean |-> clean[id], quiet |-> TRUE,
                                solo |-> \A e \in Reading : call[e].id # id]
                          ELSE IF call[d].pc = "drain" /\ call[d].id = id
                          THEN [call[d] EXCEPT !.solo = FALSE]
                          ELSE call[d]]
            /\ UNCHANGED lastOp
    /\ UNCHANGED <<processes, issued, alive, chan, rd, task, clean,
                   returned, idsReturned, stopped>>
    /\ UNCHANGED srvVars
    /\ UNCHANGED ipcVars

\* one successful try_recv
get_app_logs_recv(c) ==
    /\ call[c].pc = "drain"
    /\ chan[call[c].id] # <<>>
    /\ call' = [call EXCEPT ![c].logs = Append(@, Head(chan[call[c].id]))]
    /\ chan' = [chan EXCEPT ![call[c].id] = Dequeue(@)]
    /\ UNCHANGED <<processes, issued, alive, rd, task, clean,
                   returned, idsReturned, stopped, lastOp>>
    /\ UNCHANGED srvVars
    /\ UNCHANGED ipcVars

\* try_recv fails (empty or disconnected): truncate and return
get_app_logs_end(c) ==
    /\ call[c].pc = "drain"
    /\ chan[call[c].id] = <<>>
    /\ LET id == call[c].id
           result == LastN(call[c].logs, call[c].lines)
       IN  /\ lastOp' = Outcome("get_app_logs", id, TRUE, "")
           /\ returned' = [returned EXCEPT ![id] = @ \o result]
           /\ clean' = [clean EXCEPT ![id] = TRUE]
    /\ call' = [call EXCEPT ![c] = IdleCall]
    /\ UNCHANGED <<processes, issued, alive, chan, rd, task, idsReturned,
                   stopped>>
    /\ UNCHANGED srvVars
    /\ UNCHANGED ipcVars

(***************************************************************************)
(* ProcessManager::log_reader: one loop per stream                         *)
(***************************************************************************)
\* lines.next_line() yields the next line and send() is attempted
reader_line(id, s, nlines) ==
    /\ rd[id][s].pc = "read"
    /\ rd[id][s].pos < nlines
    /\ LET n == rd[id][s].pos + 1 IN
       IF id \notin DOMAIN processes
       THEN \* receiver dropped: send fails, the loop breaks
            /\ rd' = [rd EXCEPT ![id][s].pc = "done"]
            /\ UNCHANGED <<chan, call, clean>>
       ELSE IF CanSend(chan[id])
       THEN /\ chan' = [chan EXCEPT ![id] = Append(@, LogLine(s, n))]
            /\ rd' = [rd EXCEPT ![id][s] = [pc |-> "read", pos |-> n]]
            /\ call' = NoteSend(id)
            /\ clean' = [clean EXCEPT ![id] = FALSE]
       ELSE \* channel full: send() parks the task with the line in hand
            /\ rd' = [rd EXCEPT ![id][s] = [pc |-> "send", pos |-> n]]
            /\ UNCHANGED <<chan, call, clean>>
    /\ UNCHANGED <<processes, issued, alive, task, returned, idsReturned,
                   stopped, lastOp>>
    /\ UNCHANGED srvVars
    /\ UNCHANGED ipcVars

\* a parked send() wakes: room was made, or the receiver was dropped
reader_send(id, s) ==
    /\ rd[id][s].pc = "send"
    /\ IF id \notin DOMAIN processes
       THEN /\ rd' = [rd EXCEPT ![id][s] = [pc |-> "done", pos |-> @.pos - 1]]
            /\ UNCHANGED <<chan, call, clean>>
       ELSE /\ CanSend(chan[id])
            /\ chan' = [chan EXCEPT ![id] = Append(@, LogLine(s, rd[id][s].pos))]
            /\ rd' = [rd EXCEPT ![id][s].pc = "read"]
            /\ call' = NoteSend(id)
            /\ clean' = [clean EXCEPT ![id] = FALSE]
    /\ UNCHANGED <<processes, issued, alive, task, returned, idsReturned,
                   stopped, lastOp>>
    /\ UNCHANGED srvVars
    /\ UNCHANGED ipcVars

\* lines.next_line() yields Ok(None) or Err: the stream is closed
reader_eof(id, s) ==
    /\ rd[id][s].pc = "read"
    /\ rd' = [rd EXCEPT ![id][s].pc = "done"]
    /\ UNCHANGED <<processes, issued, alive, chan, task, call, clean,
                   returned, idsReturned, stopped, lastOp>>
    /\ UNCHANGED srvVars
    /\ UNCHANGED ipcVars

\* tokio::join!(stdout_handle, stderr_handle) returns: both loops have
\* finished and the log task completes
log_reader_join(id) ==
    /\ task[id] = "running"
    /\ \A s \in Streams : rd[id][s].pc = "done"
    /\ task' = [task EXCEPT ![id] = "done"]
    /\ UNCHANGED <<processes, issued, alive, chan, rd, call, clean,
                   returned, idsReturned, stopped, lastOp>>
    /\ UNCHANGED srvVars
    /\ UNCHANGED ipcVars

(***************************************************************************)
(* TauriMcpServer::serve: the JSON-RPC request loop                        *)
(***************************************************************************)
\* tool_methods: the tools registered as top-level methods
Tools == {"launch_app", "stop_app", "get_app_logs", "take_screenshot",
          "get_window_info", "send_keyboard_input", "send_mouse_click",
          "execute_js", "get_devtools_info", "monitor_resources",
          "list_ipc_handlers", "call_ipc_command", "find_running_apps",
          "attach_to_app"}

\* io.add_method / io.add_notification: how a method name is registered
Registered(method) ==
    IF method = "notifications/initialized" THEN "notification"
    ELSE IF method \in {"initialize", "shutdown", "tools/list", "tools/call"} \cup Tools
    THEN "method"
    ELSE "none"

\* a call_tool that insists on the first key only
RequiredFirst(tool) ==
    CASE tool = "launch_app" -> <<"app_path">>
      [] tool = "find_running_apps" -> <<>>
      [] tool = "attach_to_app" -> <<"pid">>
      [] OTHER -> <<"process_id">>

\* call_tool: the argument keys a tool insists on, in the order it checks them
Required(tool) ==
    CASE tool = "launch_app" -> <<"app_path">>
      [] tool = "send_keyboard_input" -> <<"process_id", "keys">>
      [] tool = "send_mouse_click" -> <<"process_id", "x", "y">>
      [] tool = "execute_js" -> <<"process_id", "javascript_code">>
      [] tool = "call_ipc_command" -> <<"process_id", "command_name">>
      [] tool = "find_running_apps" -> <<>>
      [] tool = "attach_to_app" -> <<"pid">>
      [] OTHER -> <<"process_id">>

\* every argument key a tool reads
AllKeys == {"app_path", "args", "process_id", "lines", "output_path", "keys",
            "x", "y", "button", "javascript_code", "command_name", "pid"}

\* a call_tool with an arm for one more name
CallToolArmsWide == {"launch_app", "stop_app", "get_app_logs", "take_screenshot",
                     "get_window_info", "send_keyboard_input", "send_mouse_click",
                     "execute_js", "get_devtools_info", "monitor_resources",
                     "list_ipc_handlers", "call_ipc_command", "find_running_apps",
                     "attach_to_app", "no_such_tool"}

\* call_tool: the arms of match tool_name
CallToolArms == {"launch_app", "stop_app", "get_app_logs", "take_screenshot",
                 "get_window_info", "send_keyboard_input", "send_mouse_click",
                 "execute_js", "get_devtools_info", "monitor_resources",
                 "list_ipc_handlers", "call_ipc_command", "find_running_apps",
                 "attach_to_app"}

\* execute_tool: the arms of match tool_name
ExecuteToolArms == {"launch_app", "stop_app", "get_app_logs", "take_screenshot",
                    "get_window_info", "send_keyboard_input", "send_mouse_click",
                    "execute_js", "get_devtools_info", "monitor_resources",
                    "list_ipc_handlers", "call_ipc_command", "find_running_apps",
                    "attach_to_app"}

\* execute_tool: the argument keys a tool insists on, in the order it checks
\* them
ExecRequired(tool) ==
    CASE tool = "launch_app" -> <<"app_path">>
      [] tool = "stop_app" -> <<"process_id">>
      [] tool = "get_app_logs" -> <<"process_id">>
      [] tool = "take_screenshot" -> <<"process_id">>
      [] tool = "get_window_info" -> <<"process_id">>
      [] tool = "send_keyboard_input" -> <<"process_id", "keys">>
      [] tool = "send_mouse_click" -> <<"process_id", "x", "y">>
      [] tool = "execute_js" -> <<"process_id", "javascript_code">>
      [] tool = "get_devtools_info" -> <<"process_id">>
      [] tool = "monitor_resources" -> <<"process_id">>
      [] tool = "list_ipc_handlers" -> <<"process_id">>
      [] tool = "call_ipc_command" -> <<"process_id", "command_name">>
      [] tool = "find_running_apps" -> <<>>
      [] tool = "attach_to_app" -> <<"pid">>

\* a catalog that leaves out the two tools added last
ListToolsShort ==
    {[name |-> "launch_app", required |-> {"app_path"}],
     [name |-> "stop_app", required |-> {"process_id"}],
     [name |-> "get_app_logs", required |-> {"process_id"}],
     [name |-> "take_screenshot", required |-> {"process_id"}],
     [name |-> "get_window_info", required |-> {"process_id"}],
     [name |-> "send_keyboard_input", required |-> {"process_id", "keys"}],
     [name |-> "send_mouse_click", required |-> {"process_id", "x", "y"}],
     [name |-> "execute_js", required |-> {"process_id", "javascript_code"}],
     [name |-> "get_devtools_info", required |-> {"process_id"}],
     [name |-> "monitor_resources", required |-> {"process_id"}],
     [name |-> "list_ipc_handlers", required |-> {"process_id"}],
     [name |-> "call_ipc_command", required |-> {"process_id", "command_name"}]}

\* list_tools: name and inputSchema.required of every entry of "tools"
\* (find_running_apps has no "required")
ListTools ==
    {[name |-> "launch_app", required |-> {"app_path"}],
     [name |-> "stop_app", required |-> {"process_id"}],
     [name |-> "get_app_logs", required |-> {"process_id"}],
     [name |-> "take_screenshot", required |-> {"process_id"}],
     [name |-> "get_window_info", required |-> {"process_id"}],
     [name |-> "send_keyboard_input", required |-> {"process_id", "keys"}],
     [name |-> "send_mouse_click", required |-> {"process_id", "x", "y"}],
     [name |-> "execute_js", required |-> {"process_id", "javascript_code"}],
     [name |-> "get_devtools_info", required |-> {"process_id"}],
     [name |-> "monitor_resources", required |-> {"process_id"}],
     [name |-> "list_ipc_handlers", required |-> {"process_id"}],
     [name |-> "call_ipc_command", required |-> {"process_id", "command_name"}],
     [name |-> "find_running_apps", required |-> {}],
     [name |-> "attach_to_app", required |-> {"pid"}]}

\* the first key of req that arguments.get(key).and_then(as_str / as_i64 /
\* as_u64) does not find among keys, the keys present with a usable value
FirstMissing(req, keys) ==
    LET i == CHOOSE j \in 1..Len(req) :
                 req[j] \notin keys /\ \A k \in 1..(j - 1) : req[k] \in keys
    IN  req[i]

\* SUPPORTED_VERSIONS
SupportedVersions == {<<"1", ".", "0">>,
                      <<"2", "0", "2", "4", "-", "1", "1", "-", "0", "5">>}

\* protocol_version.len() == 10 && chars().nth(4) == Some('-')
\*                               && chars().nth(7) == Some('-')
IsDateVersion(v) == Len(v) = 10 /\ v[5] = "-" /\ v[8] = "-"

\* the protocolVersion values tried
Versions == SupportedVersions \cup
            {<<"2", "0", "2", "5", "-", "0", "6", "-", "1", "8">>,
             <<"a", "b", "c", "d", "-", "e", "f", "-", "g", "h">>,
             <<"2", "0", "2", "5", "/", "0", "6", "/", "1", "8">>,
             <<"a", "b", "c">>}

\* a response line: the request's id and a result, or an error code; val is
\* the part of the result or of the error message the model keeps
Resp(id, kind, code) == [id |-> id, kind |-> kind, code |-> code, val |-> None]

\* what a handler hands back to jsonrpc_core
Ok == [panic |-> FALSE, kind |-> "result", code |-> "ok", val |-> None]
Err(code) == [panic |-> FALSE, kind |-> "error", code |-> code, val |-> None]
Panic == [panic |-> TRUE, kind |-> "none", code |-> "panic", val |-> None]

\* Ok(json!({"protocolVersion": protocol_version, ..}))
OkVersion(version) == [Ok EXCEPT !.val = Some(version)]

\* RpcError::invalid_params(format!(".. Supported versions: {:?} ..", SUPPORTED_VERSIONS))
ErrUnsupported(supported) == [Err("InvalidParams") EXCEPT !.val = Some(supported)]

\* RpcError::invalid_params("Missing <key>")
ErrMissing(key) == [Err("InvalidParams") EXCEPT !.val = Some(key)]

\* tokio::runtime::Handle::current().block_on(..) in the tool handlers of
\* McpServerImpl.  The handlers run inside the future that serve awaits on
\* the runtime, and Handle::block_on panics when called from within an
\* asynchronous execution context.
BlockOn == Panic

\* an initialize that brings the server down
InitializeExits(version) == Panic

\* an initialize that answers with the version it prefers
InitializeFixed(version) ==
    IF version \in SupportedVersions \/ IsDateVersion(version)
    THEN OkVersion(<<"2", "0", "2", "4", "-", "1", "1", "-", "0", "5">>)
    ELSE ErrUnsupported(SupportedVersions)

\* McpServerImpl::initialize
Initialize(version) ==
    IF version \in SupportedVersions \/ IsDateVersion(version)
    THEN OkVersion(version) ELSE ErrUnsupported(SupportedVersions)

\* a shutdown that brings the server down
ShutdownExits == Panic

\* McpServerImpl::shutdown: Ok(json!({"status": "shutdown"}))
Shutdown == [Ok EXCEPT !.val = Some("shutdown")]

\* McpServerImpl::call_tool: name and arguments of a tools/call
CallTool(name, keys) ==
    IF name = None THEN Err("InvalidParams")
    ELSE IF name[1] \notin CallToolArms THEN Err("MethodNotFound")
    ELSE IF \E i \in 1..Len(Required(name[1])) : Required(name[1])[i] \notin keys
    THEN ErrMissing(FirstMissing(Required(name[1]), keys))
    ELSE BlockOn

\* execute_tool up to the call of the manager or capability: the tool is
\* unknown, a key is missing, or the operation is called
ExecValidate(name, keys) ==
    IF name \notin ExecuteToolArms
    THEN [accept |-> FALSE, err |-> "Unknown tool", key |-> None]
    ELSE IF \E i \in 1..Len(ExecRequired(name)) : ExecRequired(name)[i] \notin keys
    THEN [accept |-> FALSE, err |-> "Missing",
          key |-> Some(FirstMissing(ExecRequired(name), keys))]
    ELSE [accept |-> TRUE, err |-> "", key |-> None]

\* the closures registered with io.add_method
Dispatch(line) ==
    IF line.shape # "map" /\ line.method \notin {"shutdown", "tools/list"}
    THEN Err("InvalidParams")
    ELSE IF line.method = "initialize"
    THEN Initialize(IF line.version = None THEN <<"1", ".", "0">> ELSE line.version[1])
    ELSE IF line.method = "shutdown" THEN Shutdown
    ELSE IF line.method = "tools/list" THEN [Ok EXCEPT !.val = Some(ListTools)]
    ELSE IF line.method = "tools/call" THEN CallTool(line.name, line.keys)
    ELSE CallTool(Some(line.method), line.keys)

\* a dispatcher that runs the method a notification names
NotifyRuns(line) ==
    IF line.v2 /\ Registered(line.method) = "method"
    THEN [panic |-> Dispatch(line).panic, out |-> None]
    ELSE [panic |-> FALSE, out |-> None]

\* a notification: its method runs only if it was added with
\* add_notification (notifications/initialized, which only logs); a
\* notification is never answered
Notify(line) == [panic |-> FALSE, out |-> None]

\* io.handle_request: None, Some(response), or the panic of a handler
HandleRequest(line) ==
    IF line.kind \in {"malformed", "blank"}
    THEN [panic |-> FALSE, out |-> Some(Resp(None, "error", "ParseError"))]
    ELSE IF line.kind = "invalid"
    THEN [panic |-> FALSE, out |-> Some(Resp(line.id, "error", "InvalidRequest"))]
    ELSE IF line.id = None
    THEN Notify(line)
    ELSE IF ~line.v2
    THEN [panic |-> FALSE, out |-> Some(Resp(line.id, "error", "InvalidRequest"))]
    ELSE IF Registered(line.method) # "method"
    THEN [panic |-> FALSE, out |-> Some(Resp(line.id, "error", "MethodNotFound"))]
    ELSE LET r == Dispatch(line) IN
         IF r.panic THEN [panic |-> TRUE, out |-> None]
         ELSE [panic |-> FALSE,
               out |-> Some([Resp(line.id, r.kind, r.code) EXCEPT !.val = r.val])]

WriteAlways(out) ==
    IF out = None THEN <<Resp(None, "error", "InternalError")>> ELSE <<out[1]>>

\* match io.handle_request(..) { Some(response) => write, None => log }
WriteOut(out) == IF out = None THEN <<>> ELSE <<out[1]>>

\* the lines tried as input
ReqIds == {None} \cup {Some(i) : i \in 1..MaxReqId}

\* the argument objects tried for a tool: the first n of its required keys
KeySets(tool) ==
    {{Required(tool)[i] : i \in 1..n} : n \in 0..Len(Required(tool))}

Lines ==
    {BlankLine, Line("malformed", TRUE, None, "", "none", None, {}, None)}
    \cup {Line("invalid", TRUE, id, "", "none", None, {}, None) : id \in ReqIds}
    \cup {Line("call", v2, id, m, sh, None, {}, None) :
             v2 \in BOOLEAN, id \in ReqIds,
             m \in {"shutdown", "tools/list", "notifications/initialized",
                    "no/such/method"},
             sh \in {"none", "map"}}
    \cup {Line("call", TRUE, id, "initialize", sh, None, {}, ver) :
             id \in ReqIds, sh \in {"array", "map"},
             ver \in {None} \cup {Some(v) : v \in Versions}}
    \cup {Line("call", TRUE, id, "tools/call", "array", None, {}, None) : id \in ReqIds}
    \cup {Line("call", TRUE, id, "tools/call", "map", None, {}, None) : id \in ReqIds}
    \cup {Line("call", TRUE, id, "tools/call", "map", Some("no_such_tool"), {}, None) :
             id \in ReqIds}
    \cup UNION {{Line("call", TRUE, id, "tools/call", "map", Some(t), ks, None) :
                    id \in ReqIds, ks \in KeySets(t)} : t \in Tools}
    \cup UNION {{Line("call", TRUE, id, t, "map", None, ks, None) :
                    id \in ReqIds, ks \in KeySets(t)} : t \in Tools}
    \cup {Line("call", TRUE, id, t, "none", None, {}, None) : id \in ReqIds, t \in Tools}

\* a loop that hands every line to the handler
IsEmptyNever(line) == FALSE

\* let line = line.trim(); line.is_empty()
IsEmpty(line) == line.kind = "blank"

\* read_line returned Ok(n), n > 0: one pass through the loop body
ServeLine(line, writeOk) ==
    /\ loop = "running"
    /\ nread < MaxInput
    /\ nread' = nread + 1
    /\ lastLine' = line
    /\ IF IsEmpty(line)
       THEN /\ wrote' = <<>>
            /\ UNCHANGED loop
       ELSE LET r == HandleRequest(line) IN
            IF r.panic
            THEN \* the panic unwinds through serve and main
                 /\ wrote' = <<>>
                 /\ loop' = "panicked"
            ELSE IF WriteOut(r.out) # <<>> /\ ~writeOk
            THEN \* stdout.write_all(..)? fails: serve returns Err
                 /\ wrote' = <<>>
                 /\ loop' = "failed"
            ELSE /\ wrote' = WriteOut(r.out)
                 /\ UNCHANGED loop
    /\ UNCHANGED mgrVars
    /\ UNCHANGED ipcVars

\* read_line returned Ok(0): end of input
ServeEof ==
    /\ loop = "running"
    /\ loop' = "eof"
    /\ UNCHANGED <<nread, lastLine, wrote>>
    /\ UNCHANGED mgrVars
    /\ UNCHANGED ipcVars

\* read_line returned Err
ServeReadError ==
    /\ loop = "running"
    /\ loop' = "readerr"
    /\ UNCHANGED <<nread, lastLine, wrote>>
    /\ UNCHANGED mgrVars
    /\ UNCHANGED ipcVars

(***************************************************************************)
(* TauriMcpServer::execute_tool: one tool, called on the server object     *)
(***************************************************************************)
\* ProcessManager::find_running_apps, under the read lock
find_running_apps ==
    /\ lastOp' = Outcome("find_running_apps", 0, TRUE, "")
    /\ UNCHANGED <<processes, issued, alive, chan, rd, task, call,
                   clean, returned, idsReturned, stopped>>
    /\ UNCHANGED srvVars
    /\ UNCHANGED ipcVars

\* an operation of WindowManager, InputSimulator, DebugTools or IpcManager:
\* it acts on the screen, the input devices or the webview, and succeeds or
\* fails there
Capability(tool, ok) ==
    /\ lastOp' = Outcome(tool, 0, ok, IF ok THEN "" ELSE "capability")
    /\ UNCHANGED <<processes, issued, alive, chan, rd, task, call,
                   clean, returned, idsReturned, stopped>>
    /\ UNCHANGED srvVars
    /\ UNCHANGED ipcVars

\* the arguments object: the keys present with a usable value, and the
\* values of process_id, pid and lines
Args(keys, process_id, pid, lines) ==
    [keys |-> keys, process_id |-> process_id, pid |-> pid, lines |-> lines]

\* what the call meets outside the server: the file system, the OS, the
\* screen, and the values the OS and Uuid::new_v4 hand out
Env(pathExists, spawnOk, killOk, ok, pid, id) ==
    [pathExists |-> pathExists, spawnOk |-> spawnOk, killOk |-> killOk,
     ok |-> ok, pid |-> pid, id |-> id]

\* Err(TauriMcpError::Other("Missing <key>")) / Other("Unknown tool: ..")
Rejected(tool, keys, v) ==
    [op |-> "execute_tool", id |-> 0, ok |-> FALSE, err |-> v.err,
     tool |-> tool, keys |-> keys, key |-> v.key]

execute_tool(tool, args, env) ==
    LET v == ExecValidate(tool, args.keys) IN
    IF ~v.accept
    THEN /\ lastOp' = Rejected(tool, args.keys, v)
         /\ UNCHANGED <<processes, issued, alive, chan, rd, task, call,
                        clean, returned, idsReturned, stopped>>
         /\ UNCHANGED srvVars
         /\ UNCHANGED ipcVars
    ELSE CASE tool = "launch_app" ->
                  launch_app(env.pathExists, env.spawnOk, env.pid, env.id)
           [] tool = "stop_app" -> stop_app(args.process_id, env.killOk)
           [] tool = "get_app_logs" ->
                  get_app_logs_begin(1, args.process_id, args.lines)
           [] tool = "monitor_resources" -> monitor_resources(args.process_id)
           [] tool = "find_running_apps" -> find_running_apps
           [] tool = "attach_to_app" -> attach_to_app(args.pid, env.id)
           [] OTHER -> Capability(tool, env.ok)

(***************************************************************************)
(* IpcManager: the handler names known for each process id                 *)
(***************************************************************************)
\* the vec! of list_ipc_handlers' else branch
DefaultHandlers ==
    <<"tauri", "app_ready", "window_created", "window_destroyed",
      "webview_created", "webview_destroyed", "event", "invoke">>

\* the handler names callers register
HandlerNames == <<"tauri", "on_save", "on_load", "on_quit">>
Handlers == {HandlerNames[i] : i \in 1..MaxHandlers}

\* known_handlers.get(process_id): the stored vector, else the defaults
ListIpcHandlers(known, p) ==
    IF p \in DOMAIN known THEN known[p] ELSE DefaultHandlers

list_ipc_handlers(p) ==
    /\ listed' = Some(ListIpcHandlers(known_handlers, p))
    /\ UNCHANGED known_handlers
    /\ UNCHANGED mgrVars
    /\ UNCHANGED srvVars

\* entry(process_id).or_insert_with(Vec::new), push unless contained
register_handler(p, h) ==
    /\ LET handlers == IF p \in DOMAIN known_handlers
                        THEN known_handlers[p] ELSE <<>>
       IN known_handlers' =
              InsertRecord(known_handlers, p,
                           IF h \in Range(handlers) THEN handlers
                           ELSE Append(handlers, h))
    /\ UNCHANGED listed
    /\ UNCHANGED mgrVars
    /\ UNCHANGED srvVars

\* get_mut(process_id), retain(|h| h != handler_name)
unregister_handler(p, h) ==
    /\ known_handlers' =
           IF p \in DOMAIN known_handlers
           THEN [known_handlers EXCEPT
                    ![p] = SelectSeq(@, LAMBDA x : x # h)]
           ELSE known_handlers
    /\ UNCHANGED listed
    /\ UNCHANGED mgrVars
    /\ UNCHANGED srvVars

(***************************************************************************)
(* Spec: the lifecycle of the registry.  Applications are launched,        *)
(* attached to and stopped in any order; the launched children are silent  *)
(* (they write nothing and keep their streams open), so the log channels   *)
(* stay empty.                                                             *)
(***************************************************************************)
Next ==
    \/ \E pid \in Pids : OsSpawn(pid)
    \/ \E pid \in Pids : OsExit(pid)
    \/ \E p, k \in BOOLEAN, pid \in Pids, id \in Ids : launch_app(p, k, pid, id)
    \/ \E pid \in Pids, id \in Ids : attach_to_app(pid, id)
    \/ \E id \in Ids, k \in BOOLEAN : stop_app(id, k)
    \/ \E id \in Ids : monitor_resources(id)
    \/ get_running_processes
    \/ \E id \in Ids, l \in LinesArgs : get_app_logs_begin(1, id, l)
    \/ get_app_logs_end(1)

Spec == Init /\ [][Next]_vars

(***************************************************************************)
(* The log multiplexer of one launched application (session-id 1, pid 1):  *)
(* its two readers, and get_app_logs called by the tasks `callers` with    *)
(* `lines` arguments drawn from `limits`; the child writes at most         *)
(* `nlines` lines on each stream.                                          *)
(***************************************************************************)
LogsStep(callers, limits, nlines) ==
    \/ launch_app(TRUE, TRUE, 1, 1)
    \/ \E c \in callers, id \in Ids, l \in limits : get_app_logs_begin(c, id, l)
    \/ \E c \in callers : get_app_logs_recv(c)
    \/ \E c \in callers : get_app_logs_end(c)
    \/ \E id \in Ids, s \in Streams : reader_line(id, s, nlines)
    \/ \E id \in Ids, s \in Streams : reader_send(id, s)
    \/ \E id \in Ids, s \in Streams : reader_eof(id, s)

\* SpecLogs: one get_app_logs call at a time, every `lines` argument
NextLogs == LogsStep({1}, LinesArgs, MaxLines)

SpecLogs == Init /\ [][NextLogs]_vars

\* SpecOverlap: get_app_logs calls that overlap under the read lock
NextOverlap == LogsStep(Callers, {None, Some(1)}, MaxLines)

SpecOverlap == Init /\ [][NextOverlap]_vars

\* SpecAttached: a launched application that prints, and an external
\* process that is attached to
NextAttached ==
    \/ LogsStep({1}, {None, Some(1)}, MaxLines)
    \/ OsSpawn(MaxPids)
    \/ \E id \in Ids : attach_to_app(MaxPids, id)

SpecAttached == Init /\ [][NextAttached]_vars

\* SpecServe: the request loop reading stdin
NextServe ==
    \/ \E line \in Lines, w \in BOOLEAN : ServeLine(line, w)
    \/ ServeEof
    \/ ServeReadError

SpecServe == Init /\ [][NextServe]_vars

(***************************************************************************)
(* SpecTools: the tools called through execute_tool on a server whose      *)
(* request loop is running, with silent children.                          *)
(***************************************************************************)
Env0 == Env(TRUE, TRUE, TRUE, TRUE, 1, 1)

\* the argument objects tried for a tool: the first n of the keys it needs
ExecKeySets(tool) ==
    IF tool \in ExecuteToolArms
    THEN {{ExecRequired(tool)[i] : i \in 1..n} : n \in 0..Len(ExecRequired(tool))}
    ELSE {{}}

\* the tools that act on the registry
ManagerTools == {"launch_app", "stop_app", "get_app_logs", "monitor_resources",
                 "find_running_apps", "attach_to_app"}

\* the calls tried: tool, arguments object, surroundings
ExecInputs ==
    {[tool |-> t, args |-> Args(ks, 1, 1, None), env |-> Env0] :
        t \in {"no_such_tool", "send_mouse_click"},
        ks \in {{}, {"process_id", "x"}}}
    \cup {[tool |-> "launch_app", args |-> Args({"app_path"}, 0, 0, None),
           env |-> Env(p, k, TRUE, TRUE, 1, id)] : p, k \in BOOLEAN, id \in Ids}
    \cup {[tool |-> "stop_app", args |-> Args({"process_id"}, id, 0, None),
           env |-> Env(TRUE, TRUE, k, TRUE, 1, 1)] : id \in Ids, k \in BOOLEAN}
    \cup {[tool |-> "get_app_logs",
           args |-> Args({"process_id"} \cup (IF l = None THEN {} ELSE {"lines"}),
                         id, 0, l),
           env |-> Env0] : id \in Ids, l \in {None, Some(1)}}
    \cup {[tool |-> "monitor_resources", args |-> Args({"process_id"}, id, 0, None),
           env |-> Env0] : id \in Ids}
    \cup {[tool |-> "find_running_apps", args |-> Args({}, 0, 0, None),
           env |-> Env0]}
    \cup {[tool |-> "attach_to_app", args |-> Args({"pid"}, 0, MaxPids, None),
           env |-> Env(TRUE, TRUE, TRUE, TRUE, 1, id)] : id \in Ids}
    \cup {[tool |-> t, args |-> Args(AllKeys, 1, 0, None),
           env |-> Env(TRUE, TRUE, TRUE, ok, 1, 1)] :
              t \in ExecuteToolArms \ ManagerTools, ok \in BOOLEAN}

\* the request lines tried
ToolLines ==
    {Line("call", TRUE, Some(1), "tools/call", "map", Some("no_such_tool"), {}, None),
     Line("call", TRUE, Some(1), "tools/call", "map", Some("send_mouse_click"),
          {"process_id", "x"}, None)}

NextTools ==
    \/ \E i \in ExecInputs : execute_tool(i.tool, i.args, i.env)
    \/ get_app_logs_end(1)
    \/ OsSpawn(MaxPids)
    \/ \E line \in ToolLines : ServeLine(line, TRUE)

SpecTools == Init /\ [][NextTools]_vars

(***************************************************************************)
(* Properties of the registry (checked under Spec)                         *)
(***************************************************************************)
\* the session-ids handed out by op, in the whole run
IdsFrom(op) == {idsReturned[i].id : i \in {j \in 1..Len(idsReturned) : idsReturned[j].op = op}}

\* C1: stop_app on a session-id created by attach_to_app always fails with
\* "Cannot stop externally launched process" and leaves the record in the
\* registry: the id stays a key for ever, a repeated stop_app fails in the
\* same way, and get_app_logs and monitor_resources still find the id.
C1_StopAttachedKeepsRecord ==
    [][\A id \in IdsFrom("attach_to_app") :
          /\ id \in DOMAIN processes'
          /\ \A k \in BOOLEAN :
                stop_app(id, k) => ~lastOp'.ok /\ lastOp'.err = ErrExternal
          /\ monitor_resources(id) => lastOp'.err # ErrNotFound
          /\ \A c \in Callers, l \in LinesArgs :
                get_app_logs_begin(c, id, l) => call'[c].pc = "drain"]_vars

\* C2: after stop_app(id) returned Ok, id is not a key of the registry, and
\* every later get_app_logs(id), monitor_resources(id) and stop_app(id)
\* fails with "Process not found".
C2_StoppedIdIsGone ==
    [][/\ \A id \in stopped' : id \notin DOMAIN processes'
       /\ \A id \in stopped :
          /\ \A k \in BOOLEAN :
                stop_app(id, k) => ~lastOp'.ok /\ lastOp'.err = ErrNotFound
          /\ monitor_resources(id) => ~lastOp'.ok /\ lastOp'.err = ErrNotFound
          /\ \A c \in Callers, l \in LinesArgs :
                get_app_logs_begin(c, id, l) =>
                    /\ call'[c].pc = "idle"
                    /\ lastOp' = Outcome("get_app_logs", id, FALSE, ErrNotFound)]_vars

\* a stopped id is asked for its logs and is not found
C2_Witness ==
    /\ lastOp = Outcome("get_app_logs", lastOp.id, FALSE, ErrNotFound)
    /\ lastOp.id \in stopped
    /\ lastOp.id \in IdsFrom("launch_app")

\* C3: a successful launch_app returns a session-id that no earlier
\* launch_app or attach_to_app returned (also not one whose record is gone),
\* the id is a key of the registry on return, and a get_app_logs or
\* monitor_resources that follows at once does not fail with
\* "Process not found".
C3_LaunchIdFreshAndResolvable ==
    [][/\ \A pid \in Pids, id \in Ids :
             launch_app(TRUE, TRUE, pid, id) =>
                 /\ lastOp' = Outcome("launch_app", id, TRUE, "")
                 /\ \A i \in 1..Len(idsReturned) : idsReturned[i].id # id
                 /\ id \in DOMAIN processes'
       /\ (lastOp.op = "launch_app" /\ lastOp.ok) =>
             /\ monitor_resources(lastOp.id) => lastOp'.err # ErrNotFound
             /\ \A c \in Callers, l \in LinesArgs :
                   get_app_logs_begin(c, lastOp.id, l) => call'[c].pc = "drain"]_vars

\* a second application is launched after an earlier id was stopped
C3_Witness ==
    /\ lastOp.op = "launch_app" /\ lastOp.ok
    /\ Len(idsReturned) = 2
    /\ stopped # {}
    /\ lastOp.id \in DOMAIN processes

(***************************************************************************)
(* Properties of the log channel (checked under SpecLogs and SpecOverlap)  *)
(***************************************************************************)
\* the lines the calls draining id hold, caller after caller
Held(id) ==
    LET RECURSIVE upto(_)
        upto(n) == IF n = 0 THEN <<>>
                   ELSE upto(n - 1) \o
                        (IF call[n].pc = "drain" /\ call[n].id = id
                         THEN call[n].logs ELSE <<>>)
    IN  upto(NumCallers)

\* what a get_app_logs that returns in this step returns
Result(id) == SubSeq(returned'[id], Len(returned[id]) + 1, Len(returned'[id]))

\* C4: get_app_logs is a destructive read.  A call without limit during
\* which no line is sent and which no other call overlaps returns exactly
\* the lines buffered when it began; a call that begins after another one
\* returned, with no line sent since, returns the empty list; and no line is
\* returned twice, by the same call or by two calls, overlapping or not.
C4_DestructiveRead ==
    [][/\ \A id \in Ids : NoDup(returned'[id]) /\ NoDup(returned[id] \o Held(id))
       /\ \A c \in Callers :
             get_app_logs_end(c) =>
                 /\ (call[c].lines = None /\ call[c].quiet /\ call[c].solo)
                        => Result(call[c].id) = call[c].snap
                 /\ (call[c].lines = None /\ call[c].quiet /\ call[c].startClean)
                        => Result(call[c].id) = <<>>]_vars

\* two calls overlap after lines were returned; one of them began with
\* nothing sent since the previous return and is about to return
C4_Witness ==
    \E c, d \in Callers :
        /\ c # d
        /\ call[c].pc = "drain" /\ call[d].pc = "drain"
        /\ call[c].id = call[d].id
        /\ call[c].lines = None /\ call[c].startClean /\ call[c].quiet
        /\ Len(returned[call[c].id]) >= 2
        /\ call[d].logs # <<>>

\* C5: get_app_logs(id, lines=N) returns at most N lines, and when more than
\* N lines are buffered it returns the N sent last, in the order they were
\* sent.
C5_LastNLines ==
    [][\A c \in Callers :
          (get_app_logs_end(c) /\ call[c].lines # None) =>
              LET N == call[c].lines[1]
                  result == Result(call[c].id)
                  logs == call[c].logs
                  snap == call[c].snap
              IN  /\ Len(result) <= N
                  /\ Len(logs) > N =>
                        result = [i \in 1..N |-> logs[Len(logs) - N + i]]
                  /\ (call[c].quiet /\ Len(snap) > N) =>
                        result = [i \in 1..N |-> snap[Len(snap) - N + i]]]_vars

\* two lines were sent, a call with a limit returned, and one line came back
C5_Witness ==
    /\ lastOp.op = "get_app_logs" /\ lastOp.ok
    /\ clean[1]
    /\ Enq(1) = 2
    /\ Len(returned[1]) = 1

\* C6: a reader that has a new line while the channel is full discards the
\* oldest buffered line and admits the new one; it never waits for room.
C6_DropOldestNeverBlocks ==
    [][\A id \in DOMAIN processes, s \in Streams :
          (reader_line(id, s, MaxLines) /\ Len(chan[id]) = QueueCap) =>
              /\ chan'[id] = Append(Tail(chan[id]), LogLine(s, rd'[id][s].pos))
              /\ rd'[id][s].pc = "read"]_vars

\* C7: the log channel of a tracked process never holds more lines than its
\* capacity.
C7_QueueBounded == \A id \in Ids : Len(chan[id]) <= QueueCap

\* the channel is full and a reader holds a further line
C7_Witness ==
    \E id \in DOMAIN processes, s \in Streams :
        Len(chan[id]) = QueueCap /\ rd[id][s].pc = "send"

(***************************************************************************)
(* Properties of the request loop (checked under SpecServe)                *)
(***************************************************************************)
\* the line is a JSON-RPC request: method and id present
IsRequest(line) == line.kind = "call" /\ line.v2 /\ line.id # None

\* the line is a notification: method present, id absent
IsNotification(line) == line.kind = "call" /\ line.id = None

\* C8: every line that is a well-formed request gets exactly one response
\* line, carrying its id, written before the next line is read, whether its
\* handler succeeds or fails.
C8_OneResponsePerRequest ==
    (nread > 0 /\ IsRequest(lastLine) /\ loop # "failed") =>
        Len(wrote) = 1 /\ wrote[1].id = lastLine.id

C10_LoopSurvivesEveryLine == loop \in {"running", "eof", "readerr", "failed"}

(***************************************************************************)
(* Properties of initialize (checked under SpecServe)                      *)
(***************************************************************************)
Digits == {"0", "1", "2", "3", "4", "5", "6", "7", "8", "9"}

\* the form dddd-dd-dd: four decimal digits, '-', two digits, '-', two digits
IsDateForm(v) ==
    /\ Len(v) = 10
    /\ v[5] = "-" /\ v[8] = "-"
    /\ \A i \in {1, 2, 3, 4, 6, 7, 9, 10} : v[i] \in Digits

\* the line just served is an initialize request with an object as params
\* and a string as protocolVersion, and its answer could be written
InitializeServed ==
    /\ nread > 0 /\ loop # "failed"
    /\ IsRequest(lastLine)
    /\ lastLine.method = "initialize" /\ lastLine.shape = "map"
    /\ lastLine.version # None

\* C11: initialize with a protocolVersion that is neither "1.0" nor
\* "2024-11-05" nor of the form dddd-dd-dd is answered with an invalid-params
\* error that names the supported versions.
C11_UnsupportedVersionRejected ==
    (/\ InitializeServed
     /\ lastLine.version[1] \notin SupportedVersions
     /\ ~IsDateForm(lastLine.version[1]))
        => wrote = <<[Resp(lastLine.id, "error", "InvalidParams")
                        EXCEPT !.val = Some(SupportedVersions)]>>

\* C12: initialize with protocolVersion "1.0", "2024-11-05" or a string of
\* the form YYYY-MM-DD succeeds, and the protocolVersion of the response is
\* the requested string.
C12_AcceptedVersionEchoed ==
    (/\ InitializeServed
     /\ \/ lastLine.version[1] \in SupportedVersions
        \/ IsDateForm(lastLine.version[1]))
        => wrote = <<[Resp(lastLine.id, "result", "ok")
                        EXCEPT !.val = Some(lastLine.version[1])]>>

\* a date version outside the allow-list was requested and echoed
C12_Witness ==
    /\ InitializeServed
    /\ lastLine.version[1] \notin SupportedVersions
    /\ IsDateForm(lastLine.version[1])
    /\ Len(wrote) = 1 /\ wrote[1].val = lastLine.version

(***************************************************************************)
(* Properties of the tool dispatch (checked under SpecServe)               *)
(***************************************************************************)
\* the names tried as tool names
ToolNames == Tools \cup CallToolArms \cup ExecuteToolArms
             \cup {e.name : e \in ListTools} \cup {"no_such_tool"}

\* the keys whose absence call_tool rejects, the other keys being there
CallRejectsWithout(tool) ==
    {k \in AllKeys : CallTool(Some(tool), AllKeys \ {k}) = ErrMissing(k)}

\* the keys whose absence execute_tool rejects, the other keys being there
ExecRejectsWithout(tool) ==
    {k \in AllKeys :
        ExecValidate(tool, AllKeys \ {k}) =
            [accept |-> FALSE, err |-> "Missing", key |-> Some(k)]}

\* the line just served is a tools/list request and its answer could be
\* written
ListServed ==
    /\ nread > 0 /\ loop # "failed"
    /\ IsRequest(lastLine)
    /\ lastLine.method = "tools/list"

\* C13: the names in the answer of tools/list are the names tools/call
\* accepts, the names registered as top-level methods and the names
\* execute_tool accepts; and for each tool the "required" list of its schema
\* is the set of keys whose absence the dispatcher rejects.
C13_CatalogInLockstep ==
    ListServed =>
        /\ Len(wrote) = 1 /\ wrote[1].kind = "result"
        /\ LET catalog == wrote[1].val[1]
               names == {e.name : e \in catalog}
           IN  /\ names = {n \in ToolNames :
                              CallTool(Some(n), AllKeys) # Err("MethodNotFound")}
               /\ names = {n \in ToolNames : Registered(n) = "method"}
               /\ names = {n \in ToolNames : ExecValidate(n, AllKeys).accept}
               /\ \A e, f \in catalog : e.name = f.name => e = f
               /\ \A e \in catalog :
                     /\ e.required = CallRejectsWithout(e.name)
                     /\ e.required = ExecRejectsWithout(e.name)

\* tools/list was answered after another line had been served
C13_Witness ==
    /\ ListServed
    /\ nread = 2
    /\ Len(wrote) = 1 /\ wrote[1].val # None

\* params.get("arguments").cloned().unwrap_or(json!({})), as the set of keys
ArgumentsOr(arguments) == IF arguments = None THEN {} ELSE arguments[1]

\* the tools/call request with the name and the arguments of a request that
\* calls a tool as top-level method (arguments left out where params are)
AsToolsCall(line) ==
    Line("call", line.v2, line.id, "tools/call", "map", Some(line.method),
         ArgumentsOr(IF line.shape = "none" THEN None ELSE Some(line.keys)),
         None)

\* result or error code of a response, without the text of the message
Code(out) == IF out = None THEN None ELSE Some(<<out[1].kind, out[1].code>>)

\* C14: calling a tool as top-level method with params A (an object, or
\* left out) has the same outcome as tools/call with that name and
\* arguments A: the same result or the same error.
C14_TopLevelSameAsToolsCall ==
    (/\ nread > 0 /\ loop # "failed"
     /\ IsRequest(lastLine)
     /\ lastLine.method \in Tools
     /\ lastLine.shape \in {"none", "map"})
        => LET top == HandleRequest(lastLine)
               via == HandleRequest(AsToolsCall(lastLine))
           IN  /\ (loop = "panicked") = top.panic
               /\ top.panic = via.panic
               /\ Code(top.out) = Code(via.out)

\* the "required" list of a tool's schema in the catalog
SchemaRequired(tool) == (CHOOSE e \in ListTools : e.name = tool).required

\* the line calls a tool of the catalog, through tools/call or as top-level
\* method, with an object as params: the tool it calls
ToolCalled(line) ==
    IF line.kind # "call" \/ ~line.v2 \/ line.id = None \/ line.shape # "map"
    THEN None
    ELSE IF line.method = "tools/call"
    THEN (IF line.name # None /\ line.name[1] \in {e.name : e \in ListTools}
          THEN line.name ELSE None)
    ELSE IF line.method \in {e.name : e \in ListTools} THEN Some(line.method)
    ELSE None

\* C16: a tool call whose arguments lack a required key is answered with an
\* invalid-params error naming a missing required key, and the manager is
\* not invoked: registry and log channels are unchanged and the loop goes on.
C16_MissingKeyRejectedFirst ==
    [][(/\ nread' = nread + 1
        /\ ToolCalled(lastLine') # None
        /\ SchemaRequired(ToolCalled(lastLine')[1]) \ lastLine'.keys # {})
           => /\ UNCHANGED mgrVars
              /\ loop' \in {"running", "failed"}
              /\ loop' = "running" =>
                    /\ Len(wrote') = 1
                    /\ wrote'[1].id = lastLine'.id
                    /\ wrote'[1].kind = "error"
                    /\ wrote'[1].code = "InvalidParams"
                    /\ wrote'[1].val # None
                    /\ wrote'[1].val[1] \in
                          SchemaRequired(ToolCalled(lastLine')[1]) \ lastLine'.keys]_vars

\* send_mouse_click without "y" was rejected with an error naming "y"
C16_Witness ==
    /\ nread > 0
    /\ ToolCalled(lastLine) = Some("send_mouse_click")
    /\ lastLine.keys = {"process_id", "x"}
    /\ Len(wrote) = 1 /\ wrote[1].val = Some("y")
    /\ loop = "running"

(***************************************************************************)
(* Properties of execute_tool (checked under SpecTools)                    *)
(***************************************************************************)
\* the argument objects tried
KeyChoices == {i.args.keys : i \in ExecInputs}

\* C15: execute_tool and call_tool make the same decision on every tool name
\* and arguments object: what execute_tool rejects, call_tool rejects for
\* the same reason (unknown tool, or the same missing key); and what
\* execute_tool accepts and hands to the manager or capability, call_tool
\* accepts and carries out as well.
C15_SameValidationAndInvocation ==
    /\ lastOp.op = "execute_tool" =>
           LET c == CallTool(Some(lastOp.tool), lastOp.keys) IN
           IF lastOp.key = None
           THEN c = Err("MethodNotFound")
           ELSE c = ErrMissing(lastOp.key[1])
    /\ lastOp.op \in ExecuteToolArms =>
           \A ks \in KeyChoices :
               ExecValidate(lastOp.op, ks).accept =>
                   LET c == CallTool(Some(lastOp.op), ks) IN
                   c.kind # "error" /\ ~c.panic

\* C17: tools/call with a name that is not in the catalog is answered with
\* a method-not-found error and changes nothing; execute_tool with such a
\* name returns an error and leaves the registry and the channels alone.
C17_UnknownToolRejected ==
    [][/\ (/\ nread' = nread + 1
           /\ IsRequest(lastLine')
           /\ lastLine'.method = "tools/call" /\ lastLine'.shape = "map"
           /\ lastLine'.name # None
           /\ lastLine'.name[1] \notin {e.name : e \in ListTools})
              => /\ wrote' = <<Resp(lastLine'.id, "error", "MethodNotFound")>>
                 /\ loop' = loop
                 /\ UNCHANGED mgrVars
       /\ (/\ lastOp' # lastOp
           /\ lastOp'.op = "execute_tool"
           /\ lastOp'.tool \notin {e.name : e \in ListTools})
              => /\ ~lastOp'.ok /\ lastOp'.err = "Unknown tool"
                 /\ UNCHANGED <<processes, issued, alive, chan, rd, task, call,
                                clean, returned, idsReturned, stopped>>
                 /\ UNCHANGED srvVars]_vars

\* with an application tracked, an unknown tool was asked for through
\* tools/call and through execute_tool
C17_Witness ==
    /\ DOMAIN processes # {}
    /\ nread > 0 /\ lastLine.name = Some("no_such_tool")
    /\ wrote = <<Resp(lastLine.id, "error", "MethodNotFound")>>
    /\ lastOp.op = "execute_tool" /\ lastOp.tool = "no_such_tool"

(***************************************************************************)
(* Properties of attach_to_app and launch_app (checked under Spec)         *)
(***************************************************************************)
\* C18: attach_to_app(pid) succeeds exactly when pid is in the process
\* table of the OS at the call; a failing call leaves the registry as it
\* was, and a successful one adds one record, under a session-id never
\* returned before, with that pid, marked attached and without child.
C18_AttachIffPidExists ==
    [][\A pid \in Pids, id \in Ids :
          attach_to_app(pid, id) =>
              /\ lastOp'.op = "attach_to_app"
              /\ lastOp'.ok <=> pid \in alive
              /\ ~lastOp'.ok => processes' = processes
              /\ lastOp'.ok =>
                    /\ lastOp'.id \notin DOMAIN processes
                    /\ \A i \in 1..Len(idsReturned) :
                          idsReturned[i].id # lastOp'.id
                    /\ DOMAIN processes' = DOMAIN processes \cup {lastOp'.id}
                    /\ \A o \in DOMAIN processes : processes'[o] = processes[o]
                    /\ processes'[lastOp'.id] =
                          [child |-> FALSE, pid |-> pid, is_attached |-> TRUE]]_vars

\* a process was attached to while another record was tracked
C18_Witness ==
    /\ lastOp.op = "attach_to_app" /\ lastOp.ok
    /\ Cardinality(DOMAIN processes) = 2
    /\ processes[lastOp.id].is_attached

\* C20: launch_app with a path that is not on disk fails with a process
\* error and spawns nothing, and every failing launch_app (missing path or
\* failing spawn) leaves the registry as it was.
C20_FailedLaunchLeavesRegistry ==
    [][\A onDisk, spawnOk \in BOOLEAN, pid \in Pids, id \in Ids :
          launch_app(onDisk, spawnOk, pid, id) =>
              /\ lastOp'.op = "launch_app"
              /\ ~onDisk => /\ ~lastOp'.ok /\ lastOp'.err = ErrNoPath
                            /\ alive' = alive
              /\ ~lastOp'.ok => /\ processes' = processes
                                /\ UNCHANGED <<chan, rd, task, idsReturned>>]_vars

\* with a record tracked, a launch failed at the path and left it there
C20_Witness ==
    /\ lastOp = Outcome("launch_app", 0, FALSE, ErrNoPath)
    /\ DOMAIN processes # {}

(***************************************************************************)
(* Properties of attached records (checked under SpecAttached)             *)
(***************************************************************************)
\* the session-ids of the attached records being tracked
Attached == {id \in DOMAIN processes : processes[id].is_attached}

\* C19: for an attached record that is tracked, get_app_logs finds the id
\* and returns the empty list, whatever the limit: the channel of the record
\* never holds a line.
C19_AttachedLogsEmpty ==
    [][/\ \A id \in Attached : chan[id] = <<>> /\ returned'[id] = <<>>
       /\ \A c \in Callers :
             /\ \A id \in Attached, l \in LinesArgs :
                   get_app_logs_begin(c, id, l) => call'[c].pc = "drain"
             /\ (get_app_logs_end(c) /\ call[c].id \in Attached) =>
                   /\ Result(call[c].id) = <<>>
                   /\ lastOp' = Outcome("get_app_logs", call[c].id, TRUE, "")]_vars

\* get_app_logs returned for the attached record while lines of the
\* launched application were waiting in its own channel
C19_Witness ==
    /\ lastOp.op = "get_app_logs" /\ lastOp.ok
    /\ lastOp.id \in Attached
    /\ \E id \in DOMAIN processes : Len(chan[id]) = QueueCap

(***************************************************************************)
(* Properties of shutdown, initialize and the end of input (checked under  *)
(* SpecServe)                                                              *)
(***************************************************************************)
\* this step read a line and handled it as a request of the given method
Served(method) ==
    /\ nread' = nread + 1
    /\ IsRequest(lastLine')
    /\ lastLine'.method = method

\* C24: shutdown is answered with an acknowledgement and has no other
\* effect: the loop is still running afterwards, ready for the next line,
\* and the registry is as it was.
C24_ShutdownOnlyAcknowledges ==
    [][Served("shutdown") =>
          /\ \/ /\ wrote' = <<[Resp(lastLine'.id, "result", "ok")
                                   EXCEPT !.val = Some("shutdown")]>>
                /\ loop' = "running"
             \/ wrote' = <<>> /\ loop' = "failed"
          /\ UNCHANGED mgrVars
          /\ UNCHANGED ipcVars]_vars

\* a shutdown was acknowledged as the first line and the loop is running
C24_Witness ==
    /\ nread = 1 /\ IsRequest(lastLine) /\ lastLine.method = "shutdown"
    /\ Len(wrote) = 1 /\ wrote[1].val = Some("shutdown")
    /\ loop = "running"

\* C25: initialize neither gates nor changes anything.  The answer to a
\* line is a function of the line alone, and an initialize, accepted or
\* rejected, first or repeated, leaves the loop and the registry as they
\* were: taking initialize requests out of a run or putting them into it
\* changes no other answer and no registry.
C25_InitializeChangesNothing ==
    [][/\ (nread' = nread + 1 /\ loop' # "failed") =>
             wrote' = (IF IsEmpty(lastLine') \/ HandleRequest(lastLine').panic
                       THEN <<>> ELSE WriteOut(HandleRequest(lastLine').out))
       /\ (nread' = nread + 1 /\ lastLine'.method = "initialize") =>
             /\ loop' \in {"running", "failed"}
             /\ loop' = "failed" => wrote' = <<>> /\ IsRequest(lastLine')
             /\ UNCHANGED mgrVars
             /\ UNCHANGED ipcVars]_vars

\* a second line was an initialize that was rejected, and the loop goes on
C25_Witness ==
    /\ nread = 2 /\ IsRequest(lastLine) /\ lastLine.method = "initialize"
    /\ Len(wrote) = 1 /\ wrote[1].kind = "error"
    /\ loop = "running"

\* C26: the end of input ends the loop and serve returns Ok(()); an empty or
\* whitespace-only line does not end the loop and is not answered.
C26_EofEndsBlankLineDoesNot ==
    [][/\ (loop' # loop /\ nread' = nread /\ loop' # "readerr") =>
             /\ loop = "running" /\ loop' = "eof"
             /\ UNCHANGED <<lastLine, wrote>>
       /\ loop = "eof" => UNCHANGED vars
       /\ (nread' = nread + 1 /\ lastLine'.kind = "blank") =>
             wrote' = <<>> /\ loop' = "running"]_vars

\* an empty line was read, and after it the end of input ended the loop
C26_Witness ==
    /\ loop = "eof" /\ nread = 2
    /\ lastLine.kind = "blank" /\ wrote = <<>>

(***************************************************************************)
(* Properties of stop_app (checked under Spec)                             *)
(***************************************************************************)
\* C21: stop_app of a record without owned child (an attached record) kills
\* nothing: it returns the not-owned error whatever a kill would have done
\* and every process stays alive; a kill, failed or not, happens only when
\* the record stopped came from launch_app.
C21_NoKillWithoutChild ==
    [][\A id \in DOMAIN processes, k \in BOOLEAN :
          stop_app(id, k) =>
              /\ ~processes[id].child =>
                    /\ alive' = alive
                    /\ lastOp' = Outcome("stop_app", id, FALSE, ErrExternal)
              /\ (alive' # alive \/ lastOp'.err = ErrKill) =>
                    /\ processes[id].child
                    /\ id \in IdsFrom("launch_app")]_vars

\* an attached record was stopped and every process is still alive
C21_Witness ==
    /\ lastOp.op = "stop_app" /\ lastOp.err = ErrExternal
    /\ lastOp.id \in IdsFrom("attach_to_app")
    /\ alive = Pids

\* C27: whenever stop_app removes a record, the record's log task is
\* aborted, once, on every return path of stop_app: kill succeeded, kill
\* failed, record attached.
C27_RemovalAbortsLogTask ==
    [][\A id \in DOMAIN processes, k \in BOOLEAN :
          (stop_app(id, k) /\ id \notin DOMAIN processes') =>
              task[id] = "running" /\ task'[id] = "aborted"]_vars

\* C28: stop_app removes the record only if the kill succeeds: when the
\* kill fails, stop_app returns the error and the record is still in the
\* registry.
C28_FailedKillKeepsRecord ==
    [][\A id \in DOMAIN processes :
          (stop_app(id, FALSE) /\ processes[id].child) =>
              /\ lastOp' = Outcome("stop_app", id, FALSE, ErrKill)
              /\ id \in DOMAIN processes']_vars

\* C30: monitor_resources on a tracked session-id whose pid the process
\* table no longer holds fails with "Failed to get process info" and leaves
\* the record in place; a stop_app on the id afterwards finds the record.
C30_MonitorOfGonePidKeepsRecord ==
    [][\A id \in Ids :
          /\ (/\ monitor_resources(id)
              /\ id \in DOMAIN processes
              /\ processes[id].pid \notin alive) =>
                /\ lastOp' = Outcome("monitor_resources", id, FALSE, ErrNoInfo)
                /\ processes' = processes
          /\ (lastOp = Outcome("monitor_resources", id, FALSE, ErrNoInfo)
                /\ \E k \in BOOLEAN : stop_app(id, k)) =>
                /\ lastOp'.err # ErrNotFound
                /\ id \notin DOMAIN processes']_vars

\* the child of a launched record has exited, and monitor_resources on its
\* session-id has failed for that
C30_Witness ==
    /\ lastOp.op = "monitor_resources" /\ lastOp.err = ErrNoInfo
    /\ lastOp.id \in DOMAIN processes
    /\ processes[lastOp.id].child
    /\ processes[lastOp.id].pid \notin alive

(***************************************************************************)
(* Properties of the key set of the registry (checked under Spec)          *)
(***************************************************************************)
\* the session-ids a launch_app or attach_to_app returns in this step
ReturnedNow ==
    {idsReturned'[i].id : i \in (Len(idsReturned) + 1)..Len(idsReturned')}

\* the session-ids whose record a stop_app removes in this step
RemovedNow ==
    {id \in DOMAIN processes :
        id \notin DOMAIN processes' /\ \E k \in BOOLEAN : stop_app(id, k)}

\* C22: get_running_processes returns the session-ids tracked by the
\* manager: none for a new manager, and from then on the ids returned by
\* successful launch_app and attach_to_app calls less the ids stop_app
\* removed.
C22_RunningProcessesAreTheKeys ==
    [][/\ get_running_processes =>
             /\ lastOp'.ids = DOMAIN processes
             /\ idsReturned = <<>> => lastOp'.ids = {}
             /\ lastOp'.ids \subseteq
                    IdsFrom("launch_app") \cup IdsFrom("attach_to_app")
       /\ DOMAIN processes' = (DOMAIN processes \cup ReturnedNow) \ RemovedNow]_vars

\* the listing was taken with one record tracked after another was removed
C22_Witness ==
    /\ lastOp.op = "get_running_processes"
    /\ Cardinality(lastOp.ids) = 1
    /\ Len(idsReturned) = 2

(***************************************************************************)
(* SpecIpc: handlers are registered, unregistered and listed in any order  *)
(***************************************************************************)
NextIpc ==
    \/ \E p \in Ids : list_ipc_handlers(p)
    \/ \E p \in Ids, h \in Handlers : register_handler(p, h)
    \/ \E p \in Ids, h \in Handlers : unregister_handler(p, h)

SpecIpc == Init /\ [][NextIpc]_vars

KeyLines ==
    {Line("call", TRUE, Some(1), "initialize", "map", None, {}, None),
     Line("call", TRUE, Some(1), "initialize", "map", None, {},
          Some(<<"2", ".", "0">>)),
     Line("call", TRUE, Some(1), "shutdown", "none", None, {}, None)}

NextKeys ==
    \/ \E pid \in Pids : OsSpawn(pid)
    \/ \E pid \in Pids : OsExit(pid)
    \/ \E p, k \in BOOLEAN, pid \in Pids, id \in Ids : launch_app(p, k, pid, id)
    \/ \E pid \in Pids, id \in Ids : attach_to_app(pid, id)
    \/ \E id \in Ids, k \in BOOLEAN : stop_app(id, k)
    \/ \E id \in Ids : monitor_resources(id)
    \/ find_running_apps
    \/ \E id \in Ids : get_app_logs_begin(1, id, None)
    \/ get_app_logs_end(1)
    \/ \E line \in KeyLines : ServeLine(line, TRUE)

SpecKeys == Init /\ [][NextKeys]_vars

\* C29: the key set of the registry changes only in a launch_app or
\* attach_to_app that succeeds, which adds the one key it returns, and in a
\* stop_app, which removes the one key it was called on; the exit of a
\* child, get_app_logs, monitor_resources, find_running_apps, initialize,
\* shutdown and a failed launch or attach leave it as it was.
C29_KeysChangeOnlyByLaunchAttachStop ==
    [][/\ \/ DOMAIN processes' = DOMAIN processes
          \/ \E id \in Ids \ DOMAIN processes :
                /\ DOMAIN processes' = DOMAIN processes \cup {id}
                /\ ReturnedNow = {id}
                /\ lastOp' \in {Outcome("launch_app", id, TRUE, ""),
                                Outcome("attach_to_app", id, TRUE, "")}
          \/ \E id \in DOMAIN processes :
                /\ DOMAIN processes' = DOMAIN processes \ {id}
                /\ \E k \in BOOLEAN : stop_app(id, k)
       /\ (\/ alive' # alive /\ lastOp' = lastOp
           \/ nread' # nread
           \/ call' # call
           \/ /\ lastOp'.op \in {"monitor_resources", "find_running_apps"}
              /\ UNCHANGED <<issued, alive, stopped>>
           \/ /\ lastOp'.op \in {"launch_app", "attach_to_app"}
              /\ ~lastOp'.ok
              /\ UNCHANGED <<issued, alive, stopped>>)
             => DOMAIN processes' = DOMAIN processes]_vars

\* two session-ids were returned and one record was removed; the child of
\* the other has exited, and the loop has served two lines, the last one a
\* shutdown
C29_Witness ==
    /\ Len(idsReturned) = 2
    /\ Cardinality(DOMAIN processes) = 1
    /\ \A id \in DOMAIN processes :
          processes[id].child /\ processes[id].pid \notin alive
    /\ nread = 2 /\ lastLine.method = "shutdown"

(***************************************************************************)
(* Properties of the blocking handoff of the tool handlers (checked under  *)
(* SpecServe)                                                              *)
(***************************************************************************)
\* the line calls a tool with every required key present, so that call_tool
\* reaches the handler that blocks on the runtime
HandlerReached(line) ==
    /\ ToolCalled(line) # None
    /\ ToolCalled(line)[1] \in CallToolArms
    /\ Range(Required(ToolCalled(line)[1])) \subseteq line.keys

\* C31: a tool handler that hands its operation to the runtime and blocks on
\* it returns a result or an error to the dispatcher: the request is
\* answered and the request loop is not aborted.
C31_BlockingHandoffReturns ==
    (nread > 0 /\ HandlerReached(lastLine)) =>
        /\ loop \in {"running", "failed"}
        /\ loop = "running" => Len(wrote) = 1 /\ wrote[1].id = lastLine.id

(***************************************************************************)
(* SpecUnlimited: one get_app_logs call at a time, each without `lines`    *)
(***************************************************************************)
NextUnlimited == LogsStep({1}, {None}, MaxLines)

SpecUnlimited == Init /\ [][NextUnlimited]_vars

\* the lines of returned[id] that carry the tag of stream s, in order
OfStream(id, s) == SelectSeq(returned[id], LAMBDA l : l.tag = s)

\* C32: for each launched process and each of its streams, the lines of the
\* stream appear in the concatenation of the unlimited get_app_logs results
\* in the order the child wrote them, under the tag of the stream they came
\* from; lines of different streams may interleave in any order.
C32_PerStreamOrder ==
    \A id \in DOMAIN processes, s \in Streams :
        /\ \A i \in 1..Len(OfStream(id, s)) : OfStream(id, s)[i].n = i
        /\ Len(OfStream(id, s)) <= rd[id][s].pos
        /\ \A i \in 1..Len(returned[id]) : returned[id][i].tag \in Streams

\* four lines were returned over several calls, the two streams interleaved
\* with standard error first
C32_Witness ==
    /\ 1 \in DOMAIN processes
    /\ Len(returned[1]) = 4
    /\ returned[1][1].tag = "stderr" /\ returned[1][2].tag = "stdout"
    /\ returned[1][3].tag = "stderr" /\ returned[1][4].tag = "stdout"

(***************************************************************************)
(* SpecReaders: a launched application, its two reader loops and the log   *)
(* task that joins them, with get_app_logs called or not.  The runtime     *)
(* schedules every task that can run, each stream ends and a get_app_logs  *)
(* call that has begun runs to its end; nothing makes a caller ask for the *)
(* logs.                                                                   *)
(***************************************************************************)
ReaderStep(id, s) ==
    \/ reader_line(id, s, MaxLines)
    \/ reader_send(id, s)
    \/ reader_eof(id, s)

ReadersFair ==
    /\ \A id \in Ids, s \in Streams : WF_vars(ReaderStep(id, s))
    /\ \A id \in Ids : WF_vars(log_reader_join(id))
    /\ \A c \in Callers : WF_vars(get_app_logs_recv(c) \/ get_app_logs_end(c))

NextReaders ==
    \/ NextUnlimited
    \/ \E id \in Ids : log_reader_join(id)

SpecReaders == Init /\ [][NextReaders]_vars /\ ReadersFair

\* C33: each reader loop ends once its stream is at its end, whatever the
\* other loop does and whether or not get_app_logs is ever called, and the
\* log task completes once both loops have ended.
C33_ReadersEndAtEof ==
    \A id \in Ids :
        /\ \A s \in Streams :
              (rd[id][s].pc \in {"read", "send"}) ~> (rd[id][s].pc = "done")
        /\ (task[id] = "running") ~> (task[id] = "done")

(***************************************************************************)
(* SpecLock: launches, attaches and stops while get_app_logs calls of      *)
(* several tasks, monitor_resources and find_running_apps are under way    *)
(* (the children are silent)                                               *)
(***************************************************************************)
NextLock ==
    \/ OsSpawn(MaxPids)
    \/ \E id \in Ids : launch_app(TRUE, TRUE, 1, id)
    \/ \E id \in Ids : attach_to_app(MaxPids, id)
    \/ \E id \in Ids : stop_app(id, TRUE)
    \/ \E id \in Ids : monitor_resources(id)
    \/ find_running_apps
    \/ \E c \in Callers, id \in Ids : get_app_logs_begin(c, id, None)
    \/ \E c \in Callers : get_app_logs_end(c)

SpecLock == Init /\ [][NextLock]_vars

\* the tasks that are inside get_app_logs
Draining == {c \in Callers : call[c].pc = "drain"}

\* this step is a launch_app, attach_to_app or stop_app that got to the
\* registry
WriterStep ==
    \/ issued' # issued
    \/ processes' # processes
    \/ \E id \in Ids : /\ lastOp' = Outcome("stop_app", id, FALSE, ErrNotFound)
                       /\ UNCHANGED <<call, alive>>
                       /\ lastOp' # lastOp
    \/ /\ lastOp' = Outcome("attach_to_app", 0, FALSE, ErrNoPid)
       /\ UNCHANGED <<call, alive>>
       /\ lastOp' # lastOp

\* C34: while launch_app, attach_to_app or stop_app executes on the registry
\* no other registry operation executes; get_app_logs, monitor_resources and
\* find_running_apps may overlap with one another.
C34_ReadersExcludeWriters ==
    [][WriterStep => Draining = {} /\ Draining' = {}]_vars

\* two get_app_logs calls are under way at once and monitor_resources has
\* just run beside them
C34_Witness ==
    /\ Cardinality(Draining) = 2
    /\ lastOp.op = "monitor_resources" /\ lastOp.ok

(***************************************************************************)
(* Properties of launches that run side by side (checked under Spec, where *)
(* the write lock orders them in every possible way)                       *)
(***************************************************************************)
\* the launch_app calls that have returned a session-id
Launches == {i \in 1..Len(idsReturned) : idsReturned[i].op = "launch_app"}

\* C35: k successful launches leave k records under k pairwise distinct
\* session-ids: each launch adds one record under an id no record has and
\* none had, and leaves every other record as it was.
C35_LaunchesAtomic ==
    [][(Len(idsReturned') = Len(idsReturned) + 1
          /\ idsReturned'[Len(idsReturned')].op = "launch_app") =>
         LET id == idsReturned'[Len(idsReturned')].id IN
         /\ id \notin DOMAIN processes
         /\ \A i \in 1..Len(idsReturned) : idsReturned[i].id # id
         /\ DOMAIN processes' = DOMAIN processes \cup {id}
         /\ \A o \in DOMAIN processes : processes'[o] = processes[o]
         /\ processes'[id].child
         /\ Cardinality({idsReturned'[i].id : i \in Launches'}) =
               Cardinality(Launches')]_vars

\* two launches have succeeded and both records are in the registry, each
\* with its own child
C35_Witness ==
    /\ Cardinality(Launches) = 2
    /\ Cardinality({id \in DOMAIN processes : processes[id].child}) = 2
    /\ \A a, b \in DOMAIN processes :
          a # b => processes[a].pid # processes[b].pid

(***************************************************************************)
(* Properties of the session (checked under SpecServe)                     *)
(***************************************************************************)
\* the line is an initialize request that names an accepted version
NamesAccepted(line) ==
    /\ IsRequest(line)
    /\ line.method = "initialize" /\ line.shape = "map"
    /\ line.version # None
    /\ \/ line.version[1] \in SupportedVersions
       \/ IsDateVersion(line.version[1])

\* C36: the protocol version of the session is set by the first successful
\* initialize and stays: an initialize after it that names another accepted
\* version does not put that version in its place, whatever it answers.
C36_NegotiatedVersionSetOnce ==
    [][(/\ nread = 1 /\ loop = "running"
        /\ NamesAccepted(lastLine)
        /\ wrote = <<[Resp(lastLine.id, "result", "ok")
                        EXCEPT !.val = lastLine.version]>>
        /\ nread' = 2
        /\ NamesAccepted(lastLine')
        /\ lastLine'.version # lastLine.version
        /\ Len(wrote') = 1 /\ wrote'[1].kind = "result")
          => wrote'[1].val = lastLine.version]_vars

(***************************************************************************)
(* Properties of the records (checked under Spec)                          *)
(***************************************************************************)
\* C37: every record of the registry has a child handle exactly if it is
\* not marked attached: a record of launch_app has the handle and is not
\* marked, a record of attach_to_app is marked and has none.  So a stop of a
\* record without handle always takes the branch of attached records.
C37_ChildIffNotAttached ==
    /\ \A id \in DOMAIN processes :
          /\ processes[id].child <=> ~processes[id].is_attached
          /\ id \in IdsFrom("launch_app") => processes[id].child
          /\ id \in IdsFrom("attach_to_app") => processes[id].is_attached
    /\ (lastOp.op = "stop_app" /\ lastOp.ok) => lastOp.id \in IdsFrom("launch_app")

\* the registry holds a record of a launch and a record of an attach
C37_Witness ==
    /\ \E id \in DOMAIN processes : processes[id].child
    /\ \E id \in DOMAIN processes : processes[id].is_attached

(***************************************************************************)
(* Properties of a limited get_app_logs (checked under SpecLogs)           *)
(***************************************************************************)
\* the lines the readers of id have sent into its channel so far
Sent(id) ==
    UNION {{[tag |-> s, n |-> n] :
               n \in 1..(rd[id][s].pos
                           - (IF rd[id][s].pc = "send" THEN 1 ELSE 0))} :
           s \in Streams}

\* the lines of id that were sent and are nowhere any more: not in the
\* channel, not in the hands of a call, not in a result
Lost(id) ==
    Sent(id) \ (Range(chan[id]) \cup Range(returned[id])
                \cup UNION {Range(call[c].logs) :
                               c \in {d \in Callers : call[d].id = id}})

\* the lines of a drained batch that come before its last `lines` lines
Cut(logs, lines) ==
    IF lines = None \/ Len(logs) <= lines[1] THEN {}
    ELSE {logs[i] : i \in 1..(Len(logs) - lines[1])}

\* C38: get_app_logs with lines = N takes out of the queue every line that
\* was buffered when it was called, not only the N it returns; the older
\* lines the limit cuts off are lost, and no later get_app_logs returns them.
C38_CutLinesAreLost ==
    [][\A id \in Ids :
          /\ (call[1].pc = "drain" /\ call[1].id = id /\ call'[1].pc = "idle") =>
                /\ Range(call[1].snap) \cap Range(chan'[id]) = {}
                /\ Range(call[1].snap) \subseteq Range(call[1].logs)
                /\ Cut(call[1].logs, call[1].lines) \subseteq Lost(id)'
          /\ Lost(id) \subseteq Lost(id)']_vars

\* a call with a limit has cut a line off, and a later call has returned
\* lines that came after it
C38_Witness ==
    /\ Lost(1) # {}
    /\ Len(returned[1]) >= 2
    /\ lastOp = Outcome("get_app_logs", 1, TRUE, "")
    /\ call[1].pc = "idle"

(***************************************************************************)
(* Properties of notifications that name a tool (checked under SpecServe)  *)
(***************************************************************************)
\* C39: a notification whose method is a tool name or tools/call is not
\* executed: no handler runs, so nothing is launched, attached, stopped or
\* drained, nothing is written, and the registry and the log channels are
\* after the line as they were before it.
C39_ToolNotificationNotExecuted ==
    [][(/\ nread' = nread + 1
        /\ IsNotification(lastLine')
        /\ lastLine'.method \in Tools \cup {"tools/call"})
          => /\ UNCHANGED <<processes, issued, alive, chan, rd, task, call,
                            returned, idsReturned, stopped, lastOp>>
             /\ loop' = loop
             /\ wrote' = <<>>]_vars

\* a notification naming stop_app with its process_id was the second line,
\* and the loop goes on
C39_Witness ==
    /\ nread = 2
    /\ IsNotification(lastLine) /\ lastLine.v2
    /\ lastLine.method = "stop_app" /\ lastLine.shape = "map"
    /\ lastLine.keys = {"process_id"}
    /\ loop = "running" /\ wrote = <<>>

(***************************************************************************)
(* SpecStop: SpecReaders with stop_app.  The fairness is that of           *)
(* SpecReaders.                                                            *)
(***************************************************************************)
NextStop ==
    \/ NextReaders
    \/ \E id \in Ids, k \in BOOLEAN : stop_app(id, k)

SpecStop == Init /\ [][NextStop]_vars /\ ReadersFair

\* C40: after stop_app has succeeded on a launched record, both reader
\* loops of the process come to an end and no further line is put into its
\* channel, although stop_app aborts the log task only and not the two
\* reader tasks.
C40_ReadersEndAfterStop ==
    /\ \A id \in Ids, s \in Streams :
          (id \in stopped) ~> (rd[id][s].pc = "done")
    /\ [][\A id \in Ids : id \in stopped => chan'[id] = chan[id]]_vars

\* stop_app has succeeded and aborted the log task while a reader was
\* waiting to send; both readers have ended since, short of their streams'
\* ends
C40_Witness ==
    /\ 1 \in stopped /\ task[1] = "aborted"
    /\ \A s \in Streams : rd[1][s].pc = "done"
    /\ \E s \in Streams : rd[1][s].pos < MaxLines
    /\ Len(chan[1]) = QueueCap

====
